---- MODULE Spec2Model ----
(***************************************************************************)
(* The local collection store of the storefront app: the two AsyncStorage  *)
(* records 'cart' and 'wishlist' and the four screens that read and write  *)
(* them (Shop, ProductDetails, Wishlist, Cart).  Every async handler is    *)
(* split at its awaits: the call, the return of getItem, the return of     *)
(* setItem.  A handler's closure holds the component state of the render   *)
(* in which it was called; a task record carries those captured values.    *)
(***************************************************************************)
EXTENDS Integers, Sequences, FiniteSets, Bags, TLC

\* Bounds of the model: the catalog holds the products 1..MaxId, and a
\* behaviour holds at most MaxOps user gestures (handler calls, screen opens,
\* restarts).  Quantities and list lengths are bounded by MaxOps.
MaxId == 2
MaxOps == 4

Ids == 1..MaxId

----------------------------------------------------------------------------
\* Catalog products and stored bytes

\* The catalog's record of product i (GET /products/{i}).
Product(i) ==
  [id |-> i, title |-> <<"title", i>>, price |-> 10 * i,
   description |-> <<"description", i>>, category |-> "category",
   image |-> <<"image", i>>]

\* useState<Product | null>(null)
NullProduct == [null |-> TRUE]

\* What AsyncStorage holds under a key: nothing (getItem gives null), bytes
\* that JSON.parse rejects, or the JSON text of a value.  On the values the
\* app writes (arrays of integers, arrays of flat objects of numbers and
\* strings) JSON.parse(JSON.stringify(v)) gives v back, field for field.
Absent == [kind |-> "absent", val |-> <<>>]
Corrupt == [kind |-> "corrupt", val |-> <<>>]
\* Mutant: a write that stops short of the last element.
StringifyCutShort(v) ==
  [kind |-> "json", val |-> IF v = <<>> THEN v ELSE SubSeq(v, 1, Len(v) - 1)]
\* JSON.stringify of a value the app built
Stringify(v) == [kind |-> "json", val |-> v]
Truthy(data) == data.kind # "absent"
ParseThrows(data) == data.kind = "corrupt"
Parse(data) == data.val

----------------------------------------------------------------------------
\* The synchronous computations of the handlers

Includes(list, x) == \E k \in 1..Len(list) : list[k] = x
\* Mutant: the first entry is dropped, whatever it is.
WithoutFirst(list, x) == IF list = <<>> THEN <<>> ELSE Tail(list)

\* list.filter(y => y !== x)
Without(list, x) == SelectSeq(list, LAMBDA y : y # x)
WithoutId(items, x) == SelectSeq(items, LAMBDA item : item.id # x)

\* Shop.toggleWishlist: computed from the component's own wishlist state.
ShopNewWishlist(wishlist, productId) ==
  IF Includes(wishlist, productId)
  THEN Without(wishlist, productId)
  ELSE Append(wishlist, productId)

\* ProductDetails.toggleWishlist: the branch is chosen by the isInWishlist
\* flag of the render the handler was called in, not by the list read.
PDNewWishlist(wishlist, isIn, id) ==
  IF isIn THEN Without(wishlist, id) ELSE Append(wishlist, id)

\* cart.find(item => item.id === id): the first index, 0 when none.
FindIndex(cart, id) ==
  LET S == {k \in 1..Len(cart) : cart[k].id = id}
  IN IF S = {} THEN 0 ELSE CHOOSE k \in S : \A j \in S : k <= j

\* ProductDetails.addToCart builds the line item field by field.
PDLineItem(product) ==
  [id |-> product.id, title |-> product.title, price |-> product.price,
   image |-> product.image, quantity |-> 1]

\* Wishlist.addToCart spreads the whole product: { ...product, quantity: 1 }.
WLLineItem(product) ==
  [f \in (DOMAIN product) \cup {"quantity"} |->
     IF f = "quantity" THEN 1 ELSE product[f]]

\* Mutant: the line is pushed without looking for an existing one.
AddOrIncrementAlwaysPush(cart, line) == Append(cart, line)

\* Mutant: the line found is taken out and put back, incremented, at the end.
AddOrIncrementMovesToEnd(cart, line) ==
  LET k == FindIndex(cart, line.id)
  IN IF k # 0
     THEN Append(WithoutId(cart, line.id), [cart[k] EXCEPT !.quantity = @ + 1])
     ELSE Append(cart, line)

\* existingItem ? existingItem.quantity += 1 : cart.push(line)
AddOrIncrement(cart, line) ==
  LET k == FindIndex(cart, line.id)
  IN IF k # 0 THEN [cart EXCEPT ![k].quantity = @ + 1] ELSE Append(cart, line)

\* Cart.updateQuantity: map each item to itself, to its copy with the new
\* quantity, or to null when the new quantity is below 1; then drop the nulls.
NullItem == [null |-> TRUE]
\* Mutant: a decrement stops at quantity 1.
NewQuantityClamped(item, increment) ==
  IF increment THEN item.quantity + 1
  ELSE IF item.quantity > 1 THEN item.quantity - 1 ELSE 1

\* increment ? item.quantity + 1 : item.quantity - 1
NewQuantity(item, increment) ==
  IF increment THEN item.quantity + 1 ELSE item.quantity - 1
\* Mutant: the test newQuantity < 1 written as newQuantity < 0.
QuantityFloorBelowZero(q) == q < 0

\* newQuantity < 1 ? null : ...
QuantityFloor(q) == q < 1
UpdateQuantityCart(cartItems, id, increment) ==
  LET mapped == [k \in 1..Len(cartItems) |->
                   IF cartItems[k].id = id
                   THEN IF QuantityFloor(NewQuantity(cartItems[k], increment))
                        THEN NullItem
                        ELSE [cartItems[k] EXCEPT
                                !.quantity = NewQuantity(cartItems[k], increment)]
                   ELSE cartItems[k]]
  IN SelectSeq(mapped, LAMBDA item : item # NullItem)

\* Cart.removeItem's confirm handler.
RemoveItemCart(cartItems, id) == WithoutId(cartItems, id)

\* Mutant: a line counted at its price, whatever its quantity.
LineTotalIgnoringQuantity(item) == item.price

\* item.price * item.quantity
LineTotal(item) == item.price * item.quantity

\* Cart.getTotalPrice: cartItems.reduce((total, item) => total + ..., 0),
\* a fold from the left that starts at 0.
RECURSIVE Reduce(_, _, _)
Reduce(items, k, total) ==
  IF k > Len(items) THEN total
  ELSE Reduce(items, k + 1, total + LineTotal(items[k]))
GetTotalPrice(cartItems) == Reduce(cartItems, 1, 0)

\* What the caller of a handler receives: every handler wraps its body in
\* try/catch and only logs, so its promise fulfils with undefined whatever
\* happened to the write.
Outcome(result) == "fulfilled"

----------------------------------------------------------------------------
\* State

VARIABLES
  storage,        \* AsyncStorage: the bytes under the keys 'cart' and 'wishlist'
  shopWishlist,   \* Shop: const [wishlist, setWishlist] = useState([])
  pdId,           \* ProductDetails: the route's id, 0 while no such screen is open
  product,        \* ProductDetails: useState<Product | null>(null)
  loading,        \* ProductDetails: useState(true)
  isInWishlist,   \* ProductDetails: useState(false)
  cartMounted,    \* whether the Cart tab has been mounted
  cartItems,      \* Cart: useState<CartItem[]>([])
  wlMounted,      \* whether the Wishlist tab has been mounted
  wishlistItems,  \* Wishlist: useState<Product[]>([])
  tasks,          \* the async calls in flight, each suspended at an await
  last,           \* history: the mutation call settled by the latest step, if any
  landed,         \* history: per product, the add-to-cart writes that succeeded
  hist,           \* history: the wishlist mutation that settled most recently
  ops             \* history: the number of user gestures so far

shopVars == <<shopWishlist>>
pdVars == <<pdId, product, loading, isInWishlist>>
cartVars == <<cartMounted, cartItems>>
wlVars == <<wlMounted, wishlistItems>>
vars == <<storage, shopWishlist, pdId, product, loading, isInWishlist,
          cartMounted, cartItems, wlMounted, wishlistItems, tasks, last,
          landed, hist, ops>>

\* The bag of calls in flight
Start(t) == tasks (+) SetToBag({t})
Settle(t) == tasks (-) SetToBag({t})
Advance(t, u) == (tasks (-) SetToBag({t})) (+) SetToBag({u})
InFlight == BagToSet(tasks)

\* Mutant: a write that leaves nothing under the other key.
SetItemAlone(key, bytes) ==
  [k \in {"cart", "wishlist"} |-> IF k = key THEN bytes ELSE Absent]

\* AsyncStorage.setItem(key, bytes), resolved: the entry of that key is
\* replaced, every other entry is kept.
SetItem(key, bytes) == [storage EXCEPT ![key] = bytes]

\* A user gesture: counted against the budget of the behaviour.
Budget == ops < MaxOps /\ ops' = ops + 1

\* Alert.alert is modal: while Cart.removeItem's alert is shown the user can
\* only answer it.
NoAlert == \A t \in InFlight : t.op # "Cart.removeItem"
Gesture == Budget /\ NoAlert

\* The record of the mutation call that the latest step settled: the call,
\* what happened to its storage write ("ok", "writeFailed", "readFailed",
\* "parseFailed", or "noop" when the handler returned without writing), what
\* the caller received, whether the call navigated to the cart, and the
\* bytes its key held just before the step.
Settled(t, result, nav, before) ==
  [call |-> t, result |-> result, outcome |-> Outcome(result), nav |-> nav,
   before |-> before]
NoCall == [call |-> [op |-> "none"], result |-> "none", outcome |-> "none",
           nav |-> FALSE, before |-> Absent]

\* The record kept of a wishlist mutation that settled: the handler, its id,
\* what happened to its write, the wishlist that a load gave just before the
\* step, and whether it settled while no other wishlist mutation was in
\* flight.
WishlistMutations ==
  {"Shop.toggleWishlist", "PD.toggleWishlist", "WL.removeFromWishlist"}
Hist(t, result, before) ==
  [op |-> t.op, id |-> t.id, result |-> result,
   before |-> IF Truthy(before) /\ ~ParseThrows(before)
              THEN Parse(before) ELSE <<>>,
   alone |-> \A u \in BagToSet(Settle(t)) : u.op \notin WishlistMutations]
NoHist == [op |-> "none", id |-> 0, result |-> "none", before |-> <<>>,
           alone |-> FALSE]

NoneLanded == [i \in Ids |-> 0]
Void == [i \in Ids |-> -1]

\* The app as launched: the Shop tab is mounted and its effect has called
\* loadWishlist; the other tabs mount on their first visit.
Launched ==
  /\ shopWishlist = <<>>
  /\ pdId = 0 /\ product = NullProduct /\ loading = TRUE /\ isInWishlist = FALSE
  /\ cartMounted = FALSE /\ cartItems = <<>>
  /\ wlMounted = FALSE /\ wishlistItems = <<>>
  /\ tasks = SetToBag({[op |-> "Shop.loadWishlist"]})
  /\ last = NoCall
  /\ hist = NoHist

\* First launch: nothing persisted yet.
Init ==
  /\ storage = [cart |-> Absent, wishlist |-> Absent]
  /\ Launched
  /\ landed = NoneLanded
  /\ ops = 0

\* A launch that finds unparseable bytes under at least one of the keys.
InitCorrupt ==
  /\ storage \in {[cart |-> Corrupt, wishlist |-> Absent],
                  [cart |-> Absent, wishlist |-> Corrupt],
                  [cart |-> Corrupt, wishlist |-> Corrupt]}
  /\ Launched
  /\ landed = NoneLanded
  /\ ops = 0

\* The cart that add-to-cart leaves when product p is added to cart, every
\* storage call succeeding.
Added(cart, p) == AddOrIncrement(cart, PDLineItem(Product(p)))

\* The carts that two adds of an earlier session leave persisted.
StoredCarts == {Added(Added(<<>>, p), q) : p, q \in Ids}

\* The wishlists that two Shop toggles, of an id and then of a greater one,
\* leave persisted.
StoredWishlists ==
  {ShopNewWishlist(ShopNewWishlist(<<>>, pq[1]), pq[2]) :
     pq \in {x \in Ids \X Ids : x[1] < x[2]}}

\* A launch that finds the cart, or the wishlist, of an earlier session
\* persisted.
InitStored ==
  /\ \/ \E cart \in StoredCarts :
          /\ storage = [cart |-> Stringify(cart), wishlist |-> Absent]
          /\ landed = [p \in Ids |->
                        IF FindIndex(cart, p) = 0 THEN 0
                        ELSE cart[FindIndex(cart, p)].quantity]
     \/ \E wishlist \in StoredWishlists :
          /\ storage = [cart |-> Absent, wishlist |-> Stringify(wishlist)]
          /\ landed = NoneLanded
  /\ Launched
  /\ ops = 0

\* The process is killed and the app launched again: storage is kept, every
\* component state and every call in flight is gone.
Restart ==
  /\ Budget
  /\ shopWishlist' = <<>>
  /\ pdId' = 0 /\ product' = NullProduct /\ loading' = TRUE
  /\ isInWishlist' = FALSE
  /\ cartMounted' = FALSE /\ cartItems' = <<>>
  /\ wlMounted' = FALSE /\ wishlistItems' = <<>>
  /\ tasks' = SetToBag({[op |-> "Shop.loadWishlist"]})
  /\ last' = NoCall
  /\ hist' = NoHist
  /\ UNCHANGED <<storage, landed>>

----------------------------------------------------------------------------
\* Shop

\* loadWishlist, at the return of getItem('wishlist')
ShopLoadWishlistReturn ==
  \E readOk \in BOOLEAN :
    LET t == [op |-> "Shop.loadWishlist"]
        data == storage.wishlist
    IN /\ t \in InFlight
       /\ tasks' = Settle(t)
       /\ shopWishlist' = IF readOk /\ Truthy(data) /\ ~ParseThrows(data)
                          THEN Parse(data) ELSE shopWishlist
       /\ last' = NoCall
       /\ UNCHANGED <<storage, pdVars, cartVars, wlVars, landed, hist, ops>>

\* toggleWishlist(productId), up to its await: the new list is computed from
\* the component state, set as the component state, and handed to setItem.
ShopToggleWishlist ==
  \E productId \in Ids :
    LET newWishlist == ShopNewWishlist(shopWishlist, productId)
    IN /\ Gesture
       /\ shopWishlist' = newWishlist
       /\ tasks' = Start([op |-> "Shop.toggleWishlist", id |-> productId,
                          pre |-> shopWishlist, ids |-> newWishlist])
       /\ last' = NoCall
       /\ UNCHANGED <<storage, pdVars, cartVars, wlVars, landed, hist>>

\* toggleWishlist, at the return of setItem('wishlist', ...)
ShopToggleWishlistReturn ==
  \E t \in InFlight, writeOk \in BOOLEAN :
    /\ t \in InFlight /\ t.op = "Shop.toggleWishlist"
    /\ tasks' = Settle(t)
    /\ storage' = IF writeOk THEN SetItem("wishlist", Stringify(t.ids))
                  ELSE storage
    /\ last' = Settled(t, IF writeOk THEN "ok" ELSE "writeFailed", FALSE,
                       storage.wishlist)
    /\ hist' = Hist(t, last'.result, storage.wishlist)
    /\ UNCHANGED <<shopVars, pdVars, cartVars, wlVars, landed, ops>>

----------------------------------------------------------------------------
\* ProductDetails

\* The screen is pushed for product id: fresh state, and its effect calls
\* fetchProduct and checkWishlist.
PDOpen ==
  \E id \in Ids :
    /\ Gesture
    /\ pdId = 0
    /\ pdId' = id /\ product' = NullProduct /\ loading' = TRUE
    /\ isInWishlist' = FALSE
    /\ tasks' = tasks (+) SetToBag({[op |-> "PD.fetchProduct", id |-> id, live |-> TRUE],
                                    [op |-> "PD.checkWishlist", id |-> id, live |-> TRUE]})
    /\ last' = NoCall
    /\ UNCHANGED <<storage, shopVars, cartVars, wlVars, landed, hist>>

\* router.back(): the screen is unmounted; what its calls in flight set on
\* the component afterwards is dropped, what they write to storage is not.
Orphan(t) == IF "live" \in DOMAIN t THEN [t EXCEPT !.live = FALSE] ELSE t
PDClose ==
  /\ Gesture
  /\ pdId # 0
  /\ pdId' = 0 /\ product' = NullProduct /\ loading' = TRUE
  /\ isInWishlist' = FALSE
  /\ tasks' = BagOfAll(Orphan, tasks)
  /\ last' = NoCall
  /\ UNCHANGED <<storage, shopVars, cartVars, wlVars, landed, hist>>

\* fetchProduct, at the return of axios.get
PDFetchProductReturn ==
  \E t \in InFlight, fetchOk \in BOOLEAN :
    /\ t \in InFlight /\ t.op = "PD.fetchProduct"
    /\ tasks' = Settle(t)
    /\ product' = IF t.live /\ fetchOk THEN Product(t.id) ELSE product
    /\ loading' = IF t.live THEN FALSE ELSE loading
    /\ last' = NoCall
    /\ UNCHANGED <<storage, pdId, isInWishlist, shopVars, cartVars, wlVars,
                   landed, hist, ops>>

\* checkWishlist, at the return of getItem('wishlist')
PDCheckWishlistReturn ==
  \E t \in InFlight, readOk \in BOOLEAN :
    LET data == storage.wishlist
    IN /\ t \in InFlight /\ t.op = "PD.checkWishlist"
       /\ tasks' = Settle(t)
       /\ isInWishlist' = IF t.live /\ readOk /\ Truthy(data) /\ ~ParseThrows(data)
                          THEN Includes(Parse(data), t.id) ELSE isInWishlist
       /\ last' = NoCall
       /\ UNCHANGED <<storage, pdId, product, loading, shopVars, cartVars,
                      wlVars, landed, hist, ops>>

\* The heart and the Add to Cart button are rendered once loading is false
\* and product is set; before that the screen shows a spinner or an error.
PDRendered == pdId # 0 /\ ~loading /\ product # NullProduct

\* toggleWishlist, up to its first await: the closure holds id and isInWishlist.
PDToggleWishlist ==
  /\ Gesture
  /\ PDRendered
  /\ tasks' = Start([op |-> "PD.toggleWishlist", pc |-> "get", id |-> pdId,
                     isIn |-> isInWishlist, live |-> TRUE, read |-> <<>>,
                     ids |-> <<>>])
  /\ last' = NoCall
  /\ UNCHANGED <<storage, shopVars, pdVars, cartVars, wlVars, landed, hist>>

\* toggleWishlist, at the return of getItem: parse, compute, call setItem.
PDToggleWishlistGet ==
  \E t \in InFlight, readOk \in BOOLEAN :
    LET data == storage.wishlist
        wishlist == IF Truthy(data) THEN Parse(data) ELSE <<>>
    IN /\ t \in InFlight /\ t.op = "PD.toggleWishlist" /\ t.pc = "get"
       /\ IF readOk /\ ~(Truthy(data) /\ ParseThrows(data))
          THEN /\ tasks' = Advance(t, [t EXCEPT !.pc = "set", !.read = wishlist,
                                         !.ids = PDNewWishlist(wishlist, t.isIn, t.id)])
               /\ last' = NoCall
               /\ hist' = hist
          ELSE /\ tasks' = Settle(t)
               /\ last' = Settled(t, IF readOk THEN "parseFailed" ELSE "readFailed",
                                  FALSE, data)
               /\ hist' = Hist(t, last'.result, data)
       /\ UNCHANGED <<storage, shopVars, pdVars, cartVars, wlVars, landed, ops>>

\* toggleWishlist, at the return of setItem: setIsInWishlist(!isInWishlist)
PDToggleWishlistSet ==
  \E t \in InFlight, writeOk \in BOOLEAN :
    /\ t \in InFlight /\ t.op = "PD.toggleWishlist" /\ t.pc = "set"
    /\ tasks' = Settle(t)
    /\ storage' = IF writeOk THEN SetItem("wishlist", Stringify(t.ids))
                  ELSE storage
    /\ isInWishlist' = IF writeOk /\ t.live THEN ~t.isIn ELSE isInWishlist
    /\ last' = Settled(t, IF writeOk THEN "ok" ELSE "writeFailed", FALSE,
                       storage.wishlist)
    /\ hist' = Hist(t, last'.result, storage.wishlist)
    /\ UNCHANGED <<pdId, product, loading, shopVars, cartVars, wlVars, landed, ops>>

\* addToCart, up to its first await; it returns at once while no product
\* is loaded.
PDAddToCart ==
  /\ Gesture
  /\ PDRendered
  /\ IF product = NullProduct
     THEN /\ tasks' = tasks
          /\ last' = Settled([op |-> "PD.addToCart", pc |-> "call",
                               product |-> product, read |-> <<>>, cart |-> <<>>],
                              "noop", FALSE, storage.cart)
     ELSE /\ tasks' = Start([op |-> "PD.addToCart", pc |-> "get",
                             product |-> product, read |-> <<>>, cart |-> <<>>])
          /\ last' = NoCall
  /\ UNCHANGED <<storage, shopVars, pdVars, cartVars, wlVars, landed, hist>>

\* Either addToCart, at the return of getItem('cart'): parse, find, increment
\* or push, call setItem.
AddToCartGet(t, readOk, line) ==
  LET data == storage.cart
      cart == IF Truthy(data) THEN Parse(data) ELSE <<>>
  IN /\ t \in InFlight /\ t.pc = "get"
     /\ IF readOk /\ ~(Truthy(data) /\ ParseThrows(data))
        THEN /\ tasks' = Advance(t, [t EXCEPT !.pc = "set", !.read = cart,
                                       !.cart = AddOrIncrement(cart, line)])
             /\ last' = NoCall
        ELSE /\ tasks' = Settle(t)
             /\ last' = Settled(t, IF readOk THEN "parseFailed" ELSE "readFailed",
                                FALSE, data)
     /\ UNCHANGED <<storage, shopVars, pdVars, cartVars, wlVars, landed, hist, ops>>

\* Either addToCart, at the return of setItem('cart', ...): router.push('/cart')
\* follows a write that succeeded, and shows the Cart tab; a Cart tab shown
\* for the first time is mounted and its effect calls loadCart.
\* Mutant: router.push('/cart') placed where it runs after a rejected write too.
NavigatesAlways(writeOk) == TRUE

\* router.push('/cart') stands after the awaited setItem, inside the try: a
\* rejected write skips it.
Navigates(writeOk) == writeOk

AddToCartSet(t, writeOk) ==
  /\ t \in InFlight /\ t.pc = "set"
  /\ IF Navigates(writeOk) /\ ~cartMounted
     THEN /\ cartMounted' = TRUE /\ cartItems' = <<>>
          /\ tasks' = Advance(t, [op |-> "Cart.loadCart"])
     ELSE /\ UNCHANGED cartVars
          /\ tasks' = Settle(t)
  /\ storage' = IF writeOk THEN SetItem("cart", Stringify(t.cart))
                ELSE storage
  /\ landed' = IF writeOk /\ landed # Void
               THEN [landed EXCEPT ![t.product.id] = @ + 1] ELSE landed
  /\ last' = Settled(t, IF writeOk THEN "ok" ELSE "writeFailed",
                     Navigates(writeOk), storage.cart)
  /\ UNCHANGED <<shopVars, pdVars, wlVars, hist, ops>>

PDAddToCartGet ==
  \E t \in InFlight, readOk \in BOOLEAN :
    /\ t.op = "PD.addToCart"
    /\ AddToCartGet(t, readOk, PDLineItem(t.product))

PDAddToCartSet ==
  \E t \in InFlight, writeOk \in BOOLEAN :
    /\ t.op = "PD.addToCart"
    /\ AddToCartSet(t, writeOk)

----------------------------------------------------------------------------
\* Cart

\* The Cart tab is visited for the first time: its effect calls loadCart.
CartMount ==
  /\ Gesture
  /\ ~cartMounted
  /\ cartMounted' = TRUE /\ cartItems' = <<>>
  /\ tasks' = Start([op |-> "Cart.loadCart"])
  /\ last' = NoCall
  /\ UNCHANGED <<storage, shopVars, pdVars, wlVars, landed, hist>>

\* loadCart, at the return of getItem('cart')
CartLoadCartReturn ==
  \E readOk \in BOOLEAN :
    LET t == [op |-> "Cart.loadCart"]
        data == storage.cart
    IN /\ t \in InFlight
       /\ tasks' = Settle(t)
       /\ cartItems' = IF readOk /\ Truthy(data) /\ ~ParseThrows(data)
                       THEN Parse(data) ELSE cartItems
       /\ last' = NoCall
       /\ UNCHANGED <<storage, cartMounted, shopVars, pdVars, wlVars, landed, hist,
                      ops>>

\* updateCart(newCart), up to its await
\* The task also keeps, as history, the cart that was persisted when the
\* handler (updateQuantity or removeItem) was called.
Seen == IF Truthy(storage.cart) /\ ~ParseThrows(storage.cart)
        THEN Parse(storage.cart) ELSE <<>>
UpdateCart(handler, id, increment, newCart) ==
  tasks' = Start([op |-> "Cart.updateCart", handler |-> handler, id |-> id,
                  increment |-> increment, pre |-> cartItems, cart |-> newCart,
                  seen |-> Seen])

\* The minus, plus and trash buttons are rendered per item of cartItems.
CartRendered(id) == cartMounted /\ FindIndex(cartItems, id) # 0

\* updateQuantity(id, increment): newCart is computed from the rendered
\* cartItems and handed to updateCart.
CartUpdateQuantity ==
  \E id \in Ids, increment \in BOOLEAN :
    /\ Gesture
    /\ CartRendered(id)
    /\ UpdateCart("updateQuantity", id, increment,
                  UpdateQuantityCart(cartItems, id, increment))
    /\ last' = NoCall
    /\ UNCHANGED <<storage, shopVars, pdVars, cartVars, wlVars, landed, hist>>

\* removeItem(id): the alert is shown; its Remove button holds the cartItems
\* of this render.
CartRemoveItem ==
  \E id \in Ids :
    /\ Gesture
    /\ CartRendered(id)
    /\ tasks' = Start([op |-> "Cart.removeItem", id |-> id, pre |-> cartItems,
                       seen |-> Seen])
    /\ last' = NoCall
    /\ UNCHANGED <<storage, shopVars, pdVars, cartVars, wlVars, landed, hist>>

\* The alert's Remove button: filter and updateCart; Cancel drops the alert.
CartRemoveItemConfirm ==
  \E t \in InFlight, confirm \in BOOLEAN :
    /\ t \in InFlight /\ t.op = "Cart.removeItem"
    /\ tasks' = IF confirm
                THEN Advance(t, [op |-> "Cart.updateCart", handler |-> "removeItem",
                                 id |-> t.id, pre |-> t.pre,
                                 cart |-> RemoveItemCart(t.pre, t.id),
                                 seen |-> t.seen])
                ELSE Settle(t)
    /\ last' = NoCall
    /\ UNCHANGED <<storage, shopVars, pdVars, cartVars, wlVars, landed, hist, ops>>

\* Mutant: setCartItems(newCart) placed before the await, so that it runs
\* whether or not the write succeeds.
CartItemsAfterOptimistic(t, writeOk) == t.cart

\* updateCart's setCartItems(newCart) stands after the await, inside the try:
\* a rejected setItem skips it.
CartItemsAfter(t, writeOk) == IF writeOk THEN t.cart ELSE cartItems

\* updateCart, at the return of setItem('cart', ...): setCartItems(newCart)
\* follows a write that succeeded.
CartUpdateCartReturn ==
  \E t \in InFlight, writeOk \in BOOLEAN :
    /\ t \in InFlight /\ t.op = "Cart.updateCart"
    /\ tasks' = Settle(t)
    /\ storage' = IF writeOk THEN SetItem("cart", Stringify(t.cart))
                  ELSE storage
    /\ cartItems' = CartItemsAfter(t, writeOk)
    /\ landed' = IF writeOk THEN Void ELSE landed
    /\ last' = Settled(t, IF writeOk THEN "ok" ELSE "writeFailed", FALSE,
                       storage.cart)
    /\ UNCHANGED <<cartMounted, shopVars, pdVars, wlVars, hist, ops>>

----------------------------------------------------------------------------
\* Wishlist

\* The Wishlist tab is visited for the first time: its effect calls loadWishlist.
WLMount ==
  /\ Gesture
  /\ ~wlMounted
  /\ wlMounted' = TRUE /\ wishlistItems' = <<>>
  /\ tasks' = Start([op |-> "WL.loadWishlist", pc |-> "get", ids |-> <<>>])
  /\ last' = NoCall
  /\ UNCHANGED <<storage, shopVars, pdVars, cartVars, landed, hist>>

\* loadWishlist, at the return of getItem('wishlist'): one axios.get per id
\* is started under Promise.all.
WLLoadWishlistGet ==
  \E t \in InFlight, readOk \in BOOLEAN :
    LET data == storage.wishlist
    IN /\ t \in InFlight /\ t.op = "WL.loadWishlist" /\ t.pc = "get"
       /\ tasks' = IF readOk /\ Truthy(data) /\ ~ParseThrows(data)
                   THEN Advance(t, [t EXCEPT !.pc = "fetch", !.ids = Parse(data)])
                   ELSE Settle(t)
       /\ last' = NoCall
       /\ UNCHANGED <<storage, shopVars, pdVars, cartVars, wlVars, landed, hist, ops>>

\* Promise.all over the lookups: the products in the order of the ids when
\* every lookup succeeds, a rejection as soon as one fails.
Hydrate(ids, failed) ==
  IF \E k \in 1..Len(ids) : ids[k] \in failed
  THEN [rejected |-> TRUE, products |-> <<>>]
  ELSE [rejected |-> FALSE, products |-> [k \in 1..Len(ids) |-> Product(ids[k])]]

\* loadWishlist, at the return of Promise.all
WLLoadWishlistFetch ==
  \E t \in InFlight :
    /\ t \in InFlight /\ t.op = "WL.loadWishlist" /\ t.pc = "fetch"
    /\ \E failed \in SUBSET {t.ids[k] : k \in 1..Len(t.ids)} :
         LET h == Hydrate(t.ids, failed)
         IN /\ tasks' = Settle(t)
            /\ wishlistItems' = IF h.rejected THEN wishlistItems ELSE h.products
            /\ last' = Settled([op |-> t.op, pc |-> t.pc, ids |-> t.ids,
                                 failed |-> failed],
                                IF h.rejected THEN "fetchFailed" ELSE "ok",
                                FALSE, storage.wishlist)
    /\ UNCHANGED <<storage, wlMounted, shopVars, pdVars, cartVars, landed, hist, ops>>

\* The heart and the cart button are rendered per item of wishlistItems.
WLRendered(id) == wlMounted /\ FindIndex(wishlistItems, id) # 0

\* removeFromWishlist(productId), up to its first await: the closure holds
\* the wishlistItems of the render.
WLRemoveFromWishlist ==
  \E productId \in Ids :
    /\ Gesture
    /\ WLRendered(productId)
    /\ tasks' = Start([op |-> "WL.removeFromWishlist", pc |-> "get",
                       id |-> productId, items |-> wishlistItems, read |-> <<>>,
                       ids |-> <<>>])
    /\ last' = NoCall
    /\ UNCHANGED <<storage, shopVars, pdVars, cartVars, wlVars, landed, hist>>

\* removeFromWishlist, at the return of getItem('wishlist'): nothing is
\* written when the key is absent.
WLRemoveFromWishlistGet ==
  \E t \in InFlight, readOk \in BOOLEAN :
    LET data == storage.wishlist
    IN /\ t \in InFlight /\ t.op = "WL.removeFromWishlist" /\ t.pc = "get"
       /\ IF readOk /\ Truthy(data) /\ ~ParseThrows(data)
          THEN /\ tasks' = Advance(t, [t EXCEPT !.pc = "set", !.read = Parse(data),
                                         !.ids = Without(Parse(data), t.id)])
               /\ last' = NoCall
               /\ hist' = hist
          ELSE /\ tasks' = Settle(t)
               /\ last' = Settled(t,
                                  IF ~readOk THEN "readFailed"
                                  ELSE IF Truthy(data) THEN "parseFailed" ELSE "noop",
                                  FALSE, data)
               /\ hist' = Hist(t, last'.result, data)
       /\ UNCHANGED <<storage, shopVars, pdVars, cartVars, wlVars, landed, ops>>

\* removeFromWishlist, at the return of setItem('wishlist', ...)
WLRemoveFromWishlistSet ==
  \E t \in InFlight, writeOk \in BOOLEAN :
    /\ t \in InFlight /\ t.op = "WL.removeFromWishlist" /\ t.pc = "set"
    /\ tasks' = Settle(t)
    /\ storage' = IF writeOk THEN SetItem("wishlist", Stringify(t.ids))
                  ELSE storage
    /\ wishlistItems' = IF writeOk THEN WithoutId(t.items, t.id) ELSE wishlistItems
    /\ last' = Settled(t, IF writeOk THEN "ok" ELSE "writeFailed", FALSE,
                       storage.wishlist)
    /\ hist' = Hist(t, last'.result, storage.wishlist)
    /\ UNCHANGED <<wlMounted, shopVars, pdVars, cartVars, landed, ops>>

\* addToCart(product), up to its first await: product is a rendered item.
WLAddToCart ==
  \E k \in 1..Len(wishlistItems) :
    /\ Gesture
    /\ wlMounted
    /\ tasks' = Start([op |-> "WL.addToCart", pc |-> "get",
                       product |-> wishlistItems[k], read |-> <<>>,
                       cart |-> <<>>])
    /\ last' = NoCall
    /\ UNCHANGED <<storage, shopVars, pdVars, cartVars, wlVars, landed, hist>>

WLAddToCartGet ==
  \E t \in InFlight, readOk \in BOOLEAN :
    /\ t.op = "WL.addToCart"
    /\ AddToCartGet(t, readOk, WLLineItem(t.product))

WLAddToCartSet ==
  \E t \in InFlight, writeOk \in BOOLEAN :
    /\ t.op = "WL.addToCart"
    /\ AddToCartSet(t, writeOk)

----------------------------------------------------------------------------
\* The system

Next ==
  \/ Restart
  \/ ShopLoadWishlistReturn
  \/ ShopToggleWishlist
  \/ ShopToggleWishlistReturn
  \/ PDOpen
  \/ PDClose
  \/ PDFetchProductReturn
  \/ PDCheckWishlistReturn
  \/ PDToggleWishlist
  \/ PDToggleWishlistGet
  \/ PDToggleWishlistSet
  \/ PDAddToCart
  \/ PDAddToCartGet
  \/ PDAddToCartSet
  \/ CartMount
  \/ CartLoadCartReturn
  \/ CartUpdateQuantity
  \/ CartRemoveItem
  \/ CartRemoveItemConfirm
  \/ CartUpdateCartReturn
  \/ WLMount
  \/ WLLoadWishlistGet
  \/ WLLoadWishlistFetch
  \/ WLRemoveFromWishlist
  \/ WLRemoveFromWishlistGet
  \/ WLRemoveFromWishlistSet
  \/ WLAddToCart
  \/ WLAddToCartGet
  \/ WLAddToCartSet

Spec == Init /\ [][Next]_vars

SpecCorrupt == InitCorrupt /\ [][Next]_vars

SpecStored == InitStored /\ [][Next]_vars

\* Every AsyncStorage.getItem and setItem call of a mutation handler
\* eventually resolves or rejects.
StorageCallsReturn ==
  /\ WF_vars(ShopToggleWishlistReturn)
  /\ WF_vars(PDToggleWishlistGet)
  /\ WF_vars(PDToggleWishlistSet)
  /\ WF_vars(PDAddToCartGet)
  /\ WF_vars(PDAddToCartSet)
  /\ WF_vars(CartUpdateCartReturn)
  /\ WF_vars(WLRemoveFromWishlistGet)
  /\ WF_vars(WLRemoveFromWishlistSet)
  /\ WF_vars(WLAddToCartGet)
  /\ WF_vars(WLAddToCartSet)

SpecLive == Init /\ [][Next]_vars /\ StorageCallsReturn

----------------------------------------------------------------------------
\* What the claims speak of

\* What a load makes of the bytes under a key: the parsed record, or the
\* empty collection when the key is absent or its bytes do not parse.
Load(data) == IF Truthy(data) /\ ~ParseThrows(data) THEN Parse(data) ELSE <<>>

LinesOf(cart, p) == {k \in 1..Len(cart) : cart[k].id = p}
QuantityOf(cart, p) ==
  IF LinesOf(cart, p) = {} THEN 0 ELSE cart[FindIndex(cart, p)].quantity
UniqueIds(cart) == \A p \in Ids : Cardinality(LinesOf(cart, p)) <= 1
NoDuplicates(list) ==
  \A j, k \in 1..Len(list) : list[j] = list[k] => j = k

AddOps == {"PD.addToCart", "WL.addToCart"}
ToggleOps == {"Shop.toggleWishlist", "PD.toggleWishlist"}
NoAddInFlight == \A t \in InFlight : t.op \notin AddOps

\* C1: add-to-cart calls whose storage steps interleave lose no add: as long
\* as only add-to-cart has written the cart, and once no add is in flight,
\* the persisted cart holds one line per product whose quantity is the
\* number of adds of that product whose write succeeded.
C1_NoAddIsLost ==
  (landed # Void /\ NoAddInFlight) =>
    \A p \in Ids :
      /\ Cardinality(LinesOf(Load(storage.cart), p)) <= 1
      /\ QuantityOf(Load(storage.cart), p) = landed[p]

WishlistOps == ToggleOps \cup {"WL.removeFromWishlist"}
NoWishlistCallInFlight == \A t \in InFlight : t.op \notin WishlistOps

\* C2: the record a wishlist toggle writes is the wishlist persisted at the
\* time of the write with the membership of the toggled id flipped and the
\* membership of every other id as it was.  (Stated for a toggle that ends
\* while no other wishlist mutation is in flight.)
C2_ToggleFlipsOnlyItsId ==
  (last.call.op \in ToggleOps /\ last.result = "ok" /\ NoWishlistCallInFlight) =>
    \A j \in Ids :
      Includes(Load(storage.wishlist), j) =
        IF j = last.call.id
        THEN ~Includes(Load(last.before), j)
        ELSE Includes(Load(last.before), j)

\* C3: when the storage write of a mutation fails, the state of the screen
\* that made the call is what it was when the call started.
C3_FailedWriteRollsBack ==
  last.result = "writeFailed" =>
    CASE last.call.op = "Shop.toggleWishlist" -> shopWishlist = last.call.pre
      [] last.call.op = "Cart.updateCart" -> cartItems = last.call.pre
      [] last.call.op = "PD.toggleWishlist" ->
           (last.call.live => isInWishlist = last.call.isIn)
      [] last.call.op = "WL.removeFromWishlist" ->
           wishlistItems = last.call.items
      [] OTHER -> TRUE

\* C4: a mutation whose storage write failed ends, for its caller, in an
\* outcome other than the outcome of a mutation whose write succeeded.
C4_FailedWriteIsSurfaced ==
  last.result = "writeFailed" => last.outcome # Outcome("ok")

\* C5: no product id appears twice in the persisted wishlist.
C5_WishlistHasNoDuplicates == NoDuplicates(Load(storage.wishlist))

\* C6: no two line items of the persisted cart, and no two of the Cart
\* screen's cartItems, share an id.
C6_CartIdsUnique == UniqueIds(Load(storage.cart)) /\ UniqueIds(cartItems)

\* Two adds of one product have been written, the second having found the
\* product in the cart and raised its quantity, and the Cart screen has
\* loaded that cart.
C6_Witness ==
  /\ cartMounted /\ cartItems = Load(storage.cart)
  /\ \E p \in Ids : landed[p] >= 2 /\ QuantityOf(cartItems, p) >= 2

\* C7: every line item of the persisted cart has a quantity of at least 1.
C7_QuantityAtLeastOne ==
  \A k \in 1..Len(Load(storage.cart)) : Load(storage.cart)[k].quantity >= 1

\* A decrement of a line of quantity 1 has been written: the line is gone.
C7_Witness ==
  /\ last.call.op = "Cart.updateCart" /\ last.call.handler = "updateQuantity"
  /\ last.result = "ok"
  /\ QuantityOf(last.call.pre, last.call.id) = 1
  /\ LinesOf(Load(storage.cart), last.call.id) = {}

\* C8: whenever no call is in flight, the Cart screen's cartItems is what a
\* load of the persisted cart gives, and the Shop screen's wishlist is what
\* a load of the persisted wishlist gives.
C8_MemoryMirrorsStorage ==
  tasks = EmptyBag =>
    /\ cartMounted => cartItems = Load(storage.cart)
    /\ shopWishlist = Load(storage.wishlist)

\* The step in which call t ends with its storage write rejected.
WriteFails(t) ==
  /\ t \in InFlight
  /\ tasks' = Settle(t)
  /\ last'.call = t /\ last'.result = "writeFailed"

\* A call that takes something away: Wishlist.removeFromWishlist, or a
\* Cart.updateCart whose new cart is shorter than the cartItems it came from.
IsRemoval(t) ==
  \/ t.op = "WL.removeFromWishlist"
  \/ t.op = "Cart.updateCart" /\ Len(t.cart) < Len(t.pre)

\* C9: a removal whose storage write fails changes neither the persisted
\* records nor the list its screen shows, so the same gesture starts the
\* same mutation again.
C9_FailedRemovalChangesNothing ==
  [][\A t \in InFlight :
       (IsRemoval(t) /\ WriteFails(t)) =>
         /\ storage' = storage
         /\ cartItems' = cartItems
         /\ wishlistItems' = wishlistItems]_vars

\* A removal on the Cart screen has had its write rejected, and the line is
\* still persisted and still shown.
C9_Witness ==
  /\ last.result = "writeFailed"
  /\ last.call.op = "Cart.updateCart" /\ Len(last.call.cart) < Len(last.call.pre)
  /\ LinesOf(Load(storage.cart), last.call.id) # {}
  /\ LinesOf(cartItems, last.call.id) # {}

\* C10: a mutation that finds unparseable bytes under its key, and whose
\* storage calls do not fail, succeeds and leaves a valid record there.
C10_CorruptionHeals ==
  (/\ last.call.op \in AddOps \cup WishlistOps
   /\ last.before = Corrupt
   /\ last.result \notin {"readFailed", "writeFailed"}) =>
    /\ last.result = "ok"
    /\ (IF last.call.op \in AddOps THEN storage.cart ELSE storage.wishlist).kind
         = "json"

\* The products of a list of ids, in the order of the ids.
ProductsOf(ids) == [k \in 1..Len(ids) |-> Product(ids[k])]

\* C11: when the catalog lookups of a wishlist load have all returned, the
\* Wishlist screen shows exactly the products of the ids whose lookup
\* succeeded, in wishlist order, whatever lookups failed.
C11_HydrationToleratesPartialFailure ==
  (last.call.op = "WL.loadWishlist" /\ last.call.pc = "fetch") =>
    wishlistItems =
      ProductsOf(SelectSeq(last.call.ids,
                           LAMBDA id : id \notin last.call.failed))

\* C12: a ProductDetails toggle taken on its add path (isInWishlist false)
\* for an id that the wishlist it read already holds, and whose write lands
\* on the record it read, leaves the persisted wishlist as it was read: the
\* id is not added a second time.
C12_AddIsIdempotent ==
  (/\ last.call.op = "PD.toggleWishlist" /\ last.result = "ok"
   /\ ~last.call.isIn
   /\ Includes(last.call.read, last.call.id)
   /\ Load(last.before) = last.call.read) =>
    Load(storage.wishlist) = last.call.read

SetOf(list) == {list[k] : k \in 1..Len(list)}

\* C13: when a toggle of an id has been written while no other wishlist
\* mutation was in flight, and the next wishlist mutation to settle is a toggle
\* of the same id from the same screen, written while no other is in flight,
\* the persisted wishlist holds again the ids it held before the first toggle.
C13_ToggleTwiceRestores ==
  [][(/\ hist.op \in ToggleOps /\ hist.result = "ok" /\ hist.alone
      /\ last'.call.op = hist.op /\ last'.call.id = hist.id
      /\ last'.result = "ok"
      /\ \A u \in BagToSet(tasks') : u.op \notin WishlistOps) =>
       SetOf(Load(storage'.wishlist)) = SetOf(hist.before)]_vars

\* The sum of price x quantity over the lines at the indices in S.
RECURSIVE SumOfLines(_, _)
SumOfLines(cart, S) ==
  IF S = {} THEN 0
  ELSE LET k == CHOOSE j \in S : TRUE
       IN cart[k].price * cart[k].quantity + SumOfLines(cart, S \ {k})

\* C14: the total the Cart screen computes is the sum of price x quantity
\* over its line items, 0 for an empty cart, and 50 for the single line of
\* product 1 (price 10) at quantity 5.
C14_TotalIsSumOfLines ==
  /\ GetTotalPrice(cartItems) = SumOfLines(cartItems, 1..Len(cartItems))
  /\ cartItems = <<>> => GetTotalPrice(cartItems) = 0
  /\ (/\ Len(cartItems) = 1 /\ cartItems[1].id = 1
      /\ cartItems[1].price = 10 /\ cartItems[1].quantity = 5) =>
       GetTotalPrice(cartItems) = 50

\* Product 1, added twice, has been raised to quantity 5 on the Cart screen,
\* which shows the total 50.
C14_Witness ==
  /\ cartMounted /\ cartItems = Load(storage.cart)
  /\ Len(cartItems) = 1 /\ cartItems[1].id = 1 /\ cartItems[1].price = 10
  /\ cartItems[1].quantity = 5
  /\ GetTotalPrice(cartItems) = 50

C16_AddedLineSurvivesCartEdits ==
  (last.call.op = "Cart.updateCart" /\ last.result = "ok") =>
    \A p \in Ids \ {last.call.id} :
      (/\ QuantityOf(last.call.seen, p) >= 1
       /\ QuantityOf(Load(last.before), p) >= QuantityOf(last.call.seen, p)) =>
        QuantityOf(Load(storage.cart), p) >= QuantityOf(last.call.seen, p)

\* A step that writes an increment of a cart line.
IncrementLands ==
  /\ last'.call.op = "Cart.updateCart"
  /\ last'.call.handler = "updateQuantity" /\ last'.call.increment
  /\ last'.result = "ok"

\* C17: when an increment of a cart line is written after an increment of
\* the same line that it was started behind (the Cart screen and the
\* persisted cart hold the cartItems it was computed from with that line
\* raised by one), the persisted and the displayed quantity of the line are
\* 2 above the quantity it was computed from.
C17_BackToBackIncrementsAddUp ==
  [][(/\ IncrementLands
      /\ cartItems = UpdateQuantityCart(last'.call.pre, last'.call.id, TRUE)
      /\ Load(storage.cart) = cartItems) =>
       /\ QuantityOf(Load(storage'.cart), last'.call.id)
            = QuantityOf(last'.call.pre, last'.call.id) + 2
       /\ QuantityOf(cartItems', last'.call.id)
            = QuantityOf(last'.call.pre, last'.call.id) + 2]_vars

\* The latest step wrote the cart of an add-to-cart call.
AddLanded ==
  last.call.op \in AddOps /\ last.result = "ok"

\* C18: the cart an add-to-cart call writes is the cart it read with the
\* first line of the product's id raised by 1 in place, or, when the cart
\* read has no such line, with one line of that id and quantity 1 appended;
\* every other line is the same record at the same position.
C18_AddToCartFrame ==
  AddLanded =>
    LET before == last.call.read
        after == Load(storage.cart)
        p == last.call.product.id
        found == {k \in 1..Len(before) : before[k].id = p}
    IN IF found # {}
       THEN LET k == CHOOSE i \in found : \A j \in found : i <= j
            IN /\ Len(after) = Len(before)
               /\ after[k] = [before[k] EXCEPT !.quantity = before[k].quantity + 1]
               /\ \A j \in 1..Len(before) : j # k => after[j] = before[j]
       ELSE /\ Len(after) = Len(before) + 1
            /\ after[Len(after)].id = p
            /\ after[Len(after)].quantity = 1
            /\ \A j \in 1..Len(before) : after[j] = before[j]

\* An add has raised the first of two lines read from storage.
C18_Witness ==
  /\ AddLanded
  /\ Len(last.call.read) = 2
  /\ last.call.read[1].id = last.call.product.id
  /\ last.call.read[2].id # last.call.product.id
  /\ QuantityOf(Load(storage.cart), last.call.product.id) = last.call.read[1].quantity + 1

\* The fields the line item built by ProductDetails.addToCart holds.
LineItemFields == {"id", "title", "price", "image", "quantity"}

\* C19: the cart either add-to-cart implementation writes is the cart
\* ProductDetails.addToCart builds from the same cart read and the same
\* product, and a line it appended holds the fields id, title, price, image
\* and quantity and no other.
C19_AddToCartImplementationsAgree ==
  AddLanded =>
    LET read == last.call.read
        after == Load(storage.cart)
    IN /\ after = AddOrIncrement(read, PDLineItem(last.call.product))
       /\ LinesOf(read, last.call.product.id) = {} =>
            DOMAIN after[Len(after)] = LineItemFields

\* The latest step wrote the cart of an updateQuantity call.
QuantityChangeLanded ==
  /\ last.call.op = "Cart.updateCart" /\ last.call.handler = "updateQuantity"
  /\ last.result = "ok"

\* C20: the cart an updateQuantity(id, increment) call writes and shows, for
\* an id with one line in the cartItems it was computed from: an increment
\* raises the line's quantity by 1; a decrement lowers it by 1 above
\* quantity 1 and takes the line out at quantity 1; every other line is the
\* same record, in the same order.
C20_UpdateQuantityFrame ==
  (QuantityChangeLanded /\ Cardinality(LinesOf(last.call.pre, last.call.id)) = 1) =>
    LET pre == last.call.pre
        after == Load(storage.cart)
        k == CHOOSE i \in LinesOf(pre, last.call.id) : TRUE
        q == pre[k].quantity
    IN /\ cartItems = after
       /\ IF last.call.increment \/ q > 1
          THEN /\ Len(after) = Len(pre)
               /\ after[k] = [pre[k] EXCEPT
                                !.quantity = IF last.call.increment THEN q + 1 ELSE q - 1]
               /\ \A j \in 1..Len(pre) : j # k => after[j] = pre[j]
          ELSE /\ Len(after) = Len(pre) - 1
               /\ \A j \in 1..Len(after) :
                    after[j] = IF j < k THEN pre[j] ELSE pre[j + 1]

\* A decrement at quantity 1 has taken the first of two lines out.
C20_Witness ==
  /\ QuantityChangeLanded /\ ~last.call.increment
  /\ Len(last.call.pre) = 2
  /\ last.call.pre[1].id = last.call.id /\ last.call.pre[1].quantity = 1
  /\ last.call.pre[2].id # last.call.id
  /\ Load(storage.cart) = <<last.call.pre[2]>>
  /\ cartItems = <<last.call.pre[2]>>

\* The handlers that write a persisted record, the key each writes, and the
\* value a call of one has computed for it.
CartMutations == AddOps \cup {"Cart.updateCart"}
MutationOps == CartMutations \cup WishlistOps
KeyOf(op) == IF op \in CartMutations THEN "cart" ELSE "wishlist"
PostOf(call) == IF call.op \in CartMutations THEN call.cart ELSE call.ids
MutationInFlight(op) == \E t \in InFlight : t.op = op

\* The latest step ended a mutation call, and the record of its key is the
\* one the step found or the whole value the call computed.
WholeOrNothing ==
  (last.call.op \in MutationOps /\ last.result # "none") =>
    \/ storage[KeyOf(last.call.op)] = last.before
    \/ /\ last.result = "ok"
       /\ Truthy(storage[KeyOf(last.call.op)])
       /\ Load(storage[KeyOf(last.call.op)]) = PostOf(last.call)

\* C21: while every storage call returns or throws, no add-to-cart, cart
\* update, cart removal or wishlist mutation stays in flight for ever, and
\* the step that ends one leaves the record of its key as it found it or
\* holding the whole value the call computed.
C21_MutationsEndWholeOrNothing ==
  /\ []WholeOrNothing
  /\ \A op \in MutationOps : MutationInFlight(op) ~> ~MutationInFlight(op)

\* A mutation has ended on a failed write with its record as it was, which
\* is not the value the call computed.
C21_Witness ==
  /\ last.call.op \in MutationOps /\ last.result = "writeFailed"
  /\ storage[KeyOf(last.call.op)] = last.before
  /\ Load(last.before) # PostOf(last.call)
  /\ \A op \in MutationOps : ~MutationInFlight(op)

\* C22: a step that navigates to the cart is the step in which an
\* add-to-cart call's write of 'cart' succeeded, and an add-to-cart call
\* that ends on a failed read, an unparsable cart, a failed write or a
\* missing product has not navigated and has left 'cart' as it was.
C22_NavigatesOnlyAfterWrite ==
  /\ last.nav =>
       /\ last.call.op \in AddOps /\ last.result = "ok"
       /\ storage.cart = Stringify(last.call.cart)
       /\ cartMounted
  /\ (last.call.op \in AddOps /\ last.result \notin {"none", "ok"}) =>
       /\ ~last.nav
       /\ storage.cart = last.before

\* An add-to-cart call has ended on a failed write, the Cart tab never shown.
C22_Witness ==
  /\ last.call.op \in AddOps /\ last.result = "writeFailed"
  /\ ~last.nav /\ ~cartMounted

\* C23: the bytes under 'wishlist' change only in a step that ends a
\* wishlist mutation, and the bytes under 'cart' only in a step that ends a
\* cart mutation: no add to cart, quantity update, cart removal or cart load
\* changes 'wishlist', and no toggle, wishlist removal, wishlist load or
\* hydration changes 'cart', whether its storage calls succeed or fail.
C23_RecordsAreIndependent ==
  [][/\ last'.call.op \notin WishlistOps => storage'.wishlist = storage.wishlist
     /\ last'.call.op \notin CartMutations => storage'.cart = storage.cart]_vars

\* A cart mutation has written 'cart' while a wishlist was persisted.
C23_Witness ==
  /\ last.call.op \in CartMutations /\ last.result = "ok"
  /\ storage.cart # last.before
  /\ Truthy(storage.wishlist) /\ Load(storage.wishlist) # <<>>

====
